---- MODULE Spec2Model ----
(***************************************************************************)
(* Model of the SUNXI PWM register interface (src/pwm.c).                  *)
(*                                                                         *)
(* Numbers wider than 31 bits are little-endian sequences of ten bytes.    *)
(* The mathematical operators Nat* are exact on that width; the U64*       *)
(* operators are the C operators on __u64, i.e. the exact result reduced   *)
(* modulo 2^64.  32-bit register words are sets of bit positions in 0..31. *)
(***************************************************************************)
EXTENDS Integers, Sequences, FiniteSets, TLC

(***************************************************************************)
(* Exact arithmetic on numbers of up to 80 bits, written as sequences of   *)
(* ten bytes, least significant first.                                     *)
(***************************************************************************)

Base == 2^8

\* An integer below 2^31.
IntToNat(n) ==
  <<n % Base, (n \div Base) % Base, (n \div Base^2) % Base, n \div Base^3, 0, 0, 0, 0, 0, 0>>

\* Only for values known to be below 2^31.
NatToInt(x) == x[1] + Base * x[2] + Base^2 * x[3] + Base^3 * x[4]

NatZero == IntToNat(0)

NatOne == IntToNat(1)

\* F applied to the value of e: e is evaluated once, whatever the number of
\* places F uses it at.
Bind(e, F(_)) == CHOOSE r \in {F(v) : v \in {e}} : TRUE

\* The bytes of a number given as a sequence s of integers s[i] * Base^(i-1),
\* from s[i] on: carry is what the lower positions pass up (\div rounds down,
\* so a borrow is a carry of -1); what the last position passes up is lost.
RECURSIVE NatCarryFrom(_, _, _)
NatCarryFrom(s, i, carry) ==
  IF i > Len(s) THEN <<>>
  ELSE Bind(s[i] + carry,
            LAMBDA t : <<t % Base>> \o NatCarryFrom(s, i + 1, t \div Base))

NatAdd(x, y) ==
  NatCarryFrom(<<x[1] + y[1], x[2] + y[2], x[3] + y[3], x[4] + y[4], x[5] + y[5],
                 x[6] + y[6], x[7] + y[7], x[8] + y[8], x[9] + y[9], x[10] + y[10]>>,
               1, 0)

\* x - y modulo Base^10
NatSub(x, y) ==
  NatCarryFrom(<<x[1] - y[1], x[2] - y[2], x[3] - y[3], x[4] - y[4], x[5] - y[5],
                 x[6] - y[6], x[7] - y[7], x[8] - y[8], x[9] - y[9], x[10] - y[10]>>,
               1, 0)

\* x * k modulo Base^10, for an integer k < 2^23
NatMulSmall(x, k) ==
  NatCarryFrom(<<x[1] * k, x[2] * k, x[3] * k, x[4] * k, x[5] * k,
                 x[6] * k, x[7] * k, x[8] * k, x[9] * k, x[10] * k>>,
               1, 0)

\* x <= y: the bytes are equal, or the top byte that differs is less in x.
NatLeq(x, y) ==
  Bind({i \in 1..10 : x[i] # y[i]},
       LAMBDA diff : \/ diff = {}
                     \/ Bind(CHOOSE i \in diff : \A j \in diff : j <= i,
                             LAMBDA m : x[m] < y[m]))

\* r * Base + b for a byte b
NatBringDown(r, b) == <<b, r[1], r[2], r[3], r[4], r[5], r[6], r[7], r[8], r[9]>>

\* y * 2^0, ..., y * 2^7, for y < 2^64
NatShifts(y) ==
  <<NatMulSmall(y, 1), NatMulSmall(y, 2), NatMulSmall(y, 4), NatMulSmall(y, 8),
    NatMulSmall(y, 16), NatMulSmall(y, 32), NatMulSmall(y, 64), NatMulSmall(y, 128)>>

\* The quotient digit of r by y, for r < Base * y, and what is left of r:
\* the bits of the digit from the given bit down, digit being the bits above
\* it and r what they left; ys is NatShifts(y).
RECURSIVE NatDigitFrom(_, _, _, _)
NatDigitFrom(r, ys, bit, digit) ==
  IF bit < 0 THEN [digit |-> digit, rem |-> r]
  ELSE IF NatLeq(ys[bit + 1], r)
       THEN Bind(NatSub(r, ys[bit + 1]),
                 LAMBDA t : NatDigitFrom(t, ys, bit - 1, digit + 2^bit))
       ELSE NatDigitFrom(r, ys, bit - 1, digit)

\* One step of long division: rem is the remainder of the bytes brought
\* down so far, b the next byte of the dividend.
NatDivStep(rem, b, ys) == NatDigitFrom(NatBringDown(rem, b), ys, 7, 0)

\* The bytes i .. 1 of the quotient of x by y, rem being the remainder of
\* the bytes of x above byte i.
RECURSIVE NatDivFrom(_, _, _, _)
NatDivFrom(x, ys, i, rem) ==
  IF i = 0 THEN <<>>
  ELSE Bind(NatDivStep(rem, x[i], ys),
            LAMBDA q : NatDivFrom(x, ys, i - 1, q.rem) \o <<q.digit>>)

\* floor(x / y), for 0 < y < 2^64: long division from the top byte down.
NatDiv(x, y) ==
  Bind(x, LAMBDA xv : Bind(NatShifts(y), LAMBDA ys : NatDivFrom(xv, ys, 10, NatZero)))

\* Decimal literal written in groups of six digits, most significant first.
RECURSIVE NatDecFrom(_, _, _)
NatDecFrom(groups, k, acc) ==
  IF k > Len(groups) THEN acc
  ELSE NatDecFrom(groups, k + 1, NatAdd(NatMulSmall(acc, 1000000), IntToNat(groups[k])))

NatDec(groups) == NatDecFrom(groups, 1, NatZero)

(***************************************************************************)
(* C integer types                                                         *)
(***************************************************************************)

\* Bits of an unsigned int.
WordBits == 32

\* Reduction modulo 2^64: a __u64 is the low eight bytes.
Wrap64(x) == <<x[1], x[2], x[3], x[4], x[5], x[6], x[7], x[8], 0, 0>>

\* x * y on __u64, for x < 2^23.  The left operand is 24000000 / divisor
\* (at most 200000) at the first use and an accepted tick count (at most
\* 65536) at the second.
U64Mul(x, y) == Wrap64(NatMulSmall(y, NatToInt(x)))

U64Div(x, y) == NatDiv(x, y)

\* A subtraction that stops at 0 instead of wrapping: a tick count of 0 then
\* passes div - 1 <= 0xFFFF, which C17 excludes.
U64Sub_Saturating(x, y) == IF NatLeq(x, y) THEN NatZero ELSE Wrap64(NatSub(x, y))

U64Sub(x, y) == Wrap64(NatSub(x, y))

NatBit(x, i) == (x[(i \div 8) + 1] \div 2^(i % 8)) % 2

\* Conversion of a __u64 to unsigned int: the low 32 bits.
U32(x) == {b \in 0..(WordBits - 1) : NatBit(x, b) = 1}

\* The bits of n from bit b on, n being what is left of the number above b.
RECURSIVE IntBitsFrom(_, _)
IntBitsFrom(n, b) ==
  IF n = 0 THEN {}
  ELSE (IF n % 2 = 1 THEN {b} ELSE {}) \cup IntBitsFrom(n \div 2, b + 1)

\* A non-negative int as a word.
IntBits(n) == IntBitsFrom(n, 0)

Shl(w, n) == {b + n : b \in w} \cap 0..(WordBits - 1)

Not(w) == 0..(WordBits - 1) \ w

And(a, b) == a \cap b

Or(a, b) == a \cup b

RECURSIVE Add32From(_, _, _, _)
Add32From(a, b, i, c) ==
  IF i >= WordBits THEN {}
  ELSE LET s == (IF i \in a THEN 1 ELSE 0) + (IF i \in b THEN 1 ELSE 0) + c
       IN  (IF s % 2 = 1 THEN {i} ELSE {}) \cup Add32From(a, b, i + 1, s \div 2)

\* Addition of unsigned int, modulo 2^32.
Add32(a, b) == Add32From(a, b, 0, 0)

\* a - 1 on unsigned int
Dec32(a) == Add32(a, 0..(WordBits - 1))

(***************************************************************************)
(* Definitions of pwm.c                                                    *)
(***************************************************************************)

EPERM == 1

EINVAL == 22

\* Channel arguments SUNXI_PWM_CH0, SUNXI_PWM_CH1: the indexes of ch_period.
Channels == {0, 1}

SUNXI_PWM_POLARITY_NORMAL == "normal"

SUNXI_PWM_POLARITY_INVERSED == "inversed"

SUNXI_PWM_IO_BASE == 29494784   \* 0x01c20e00

\* The enable bit at a stride of 16 bits: bit 20 for channel 1, which C6
\* excludes.
SUNXI_PWM_EN_Stride16(ch) == Shl(Shl(IntBits(1), 4), 16 * ch)

SUNXI_PWM_EN(ch) == Shl(Shl(IntBits(1), 4), 15 * ch)

\* The polarity bit at a stride of 16 bits: bit 21 for channel 1, which C5
\* excludes.
SUNXI_PWM_ACT_STATE_Stride16(ch) == Shl(Shl(IntBits(1), 5), 16 * ch)

SUNXI_PWM_ACT_STATE(ch) == Shl(Shl(IntBits(1), 5), 15 * ch)

SUNXI_PWM_CLK_GATING(ch) == Shl(Shl(IntBits(1), 6), 15 * ch)

SUNXI_PWM_PRESCALAR(ch, prescaler) == Shl(prescaler, 15 * ch)

\* The table with 1200 for 12000 at index 8: a period of 10 s then takes
\* index 9, which C9 excludes.
prescaler_table_1200 ==
  <<120, 180, 240, 360, 480, 0, 0, 0, 1200, 24000, 36000, 48000, 72000, 0, 0, 0>>

\* prescaler_table[i] of the source is prescaler_table[i + 1] here.
prescaler_table ==
  <<120, 180, 240, 360, 480, 0, 0, 0, 12000, 24000, 36000, 48000, 72000, 0, 0, 0>>

(***************************************************************************)
(* sunxi_pwm_set_config: computation of the register values                *)
(***************************************************************************)

\* div after the four assignments of one loop iteration.
PeriodTicks(prescaler, period_ns) ==
  U64Div(U64Mul(U64Div(IntToNat(24000000), IntToNat(prescaler_table[prescaler + 1])),
                period_ns),
         NatDec(<<1000, 0>>))

\* The test without the decrement, div <= 0xFFFF: it sends a period of
\* 65536 ticks on to the next divisor, which C1 excludes.
TicksFit_NoDecrement(div) == NatLeq(div, IntToNat(65535))

\* div - 1 <= 0xFFFF on __u64
TicksFit(div) == NatLeq(U64Sub(div, NatOne), IntToNat(65535))

\* The for loop from its test prescaler < 0x0F on: prescaler and div when
\* the loop is left, by the test or by break.
RECURSIVE SearchFrom(_, _, _)
SearchFrom(prescaler, div, period_ns) ==
  IF ~(prescaler < 15)
  THEN [prescaler |-> prescaler, div |-> div]
  ELSE IF prescaler_table[prescaler + 1] = 0
       THEN SearchFrom(prescaler + 1, div, period_ns)
       ELSE Bind(PeriodTicks(prescaler, period_ns),
                 LAMBDA d : IF TicksFit(d)
                            THEN [prescaler |-> prescaler, div |-> d]
                            ELSE SearchFrom(prescaler + 1, d, period_ns))

\* prescaler and div after the loop.  div is declared without an initial
\* value (NatZero stands for it), but prescaler_table[0] is not zero, so the
\* first pass assigns it before it is read.
SearchPrescaler(period_ns) == SearchFrom(0, NatZero, period_ns)

\* dty: div *= duty_ns; div = div / period_ns; dty = div
DutyTicks(div, period_ns, duty_ns) == U32(U64Div(U64Mul(div, duty_ns), period_ns))

\* The word without the decrement, (prd << 16) + (dty & 0xFFFF): the period
\* field of 4000 ticks is then 4000, which C8 excludes.
PackPeriod_NoDecrement(prd, dty) == Add32(Shl(prd, 16), And(dty, IntBits(65535)))

\* ((prd - 1) << 16) + (dty & 0xFFFF)
PackPeriod(prd, dty) == Add32(Shl(Dec32(prd), 16), And(dty, IntBits(65535)))

\* The test after the loop left out: a search that has run through the
\* table goes on to write index 15 and the last div, which C15 excludes.
ComputeRegisters_NoRangeCheck(period_ns, duty_ns) ==
  Bind(SearchPrescaler(period_ns),
       LAMBDA s :
         Bind(<<U32(s.div), DutyTicks(s.div, period_ns, duty_ns)>>,
              LAMBDA l : [ret |-> 0, prescaler |-> s.prescaler,
                          prd |-> l[1], dty |-> l[2],
                          period |-> PackPeriod(l[1], l[2])]))

\* "Compute PWM registers": the value returned there or, with ret = 0, the
\* locals prescaler, prd and dty and the word they make for ch_period[ch].
ComputeRegisters(period_ns, duty_ns) ==
  Bind(SearchPrescaler(period_ns),
       LAMBDA s :
         IF ~TicksFit(s.div)
         THEN [ret |-> -EINVAL, prescaler |-> s.prescaler, prd |-> {}, dty |-> {},
               period |-> {}]
         ELSE Bind(<<U32(s.div), DutyTicks(s.div, period_ns, duty_ns)>>,
                   LAMBDA l : [ret |-> 0, prescaler |-> s.prescaler,
                               prd |-> l[1], dty |-> l[2],
                               period |-> PackPeriod(l[1], l[2])]))

\* The last statement left out: the gating bit stays cleared, which C4
\* excludes.
RestoreGating_Skipped(ctrl, ch, clk_gating) == ctrl

\* if (clk_gating != 0) reg->ctrl |= SUNXI_PWM_CLK_GATING(ch)
RestoreGating(ctrl, ch, clk_gating) ==
  IF clk_gating # {} THEN Or(ctrl, SUNXI_PWM_CLK_GATING(ch)) ELSE ctrl

\* The period register added to instead of assigned: a second call with the
\* same arguments then changes it again, which C11 excludes.
WriteConfig_Accumulates(r, ch, c) ==
  [ctrl      |-> r.ctrl,
   ch_period |-> [r.ch_period EXCEPT ![ch] = Add32(@, c.period)]]

\* "Set PWM period and duty cycle": the registers after the six statements.
WriteConfig(r, ch, c) ==
  LET clk_gating == And(r.ctrl, SUNXI_PWM_CLK_GATING(ch))
      c1 == And(r.ctrl, Not(SUNXI_PWM_CLK_GATING(ch)))
      c2 == And(c1, Not(SUNXI_PWM_PRESCALAR(ch, IntBits(15))))
      c3 == Or(c2, SUNXI_PWM_PRESCALAR(ch, IntBits(c.prescaler)))
  IN  [ctrl      |-> RestoreGating(c3, ch, clk_gating),
       ch_period |-> [r.ch_period EXCEPT ![ch] = c.period]]

(***************************************************************************)
(* Arguments of the calls                                                  *)
(***************************************************************************)

\* Calls made in one run.
MaxCalls == 3

\* period_ns: 0; the shortest period with a tick and the one below it; the
\* 50 Hz servo period; the longest period of divisor 120 and the first of
\* divisor 180; periods for divisors 12000 (10 s) and 72000; a period too
\* long for every divisor (200 s); and the first period whose product with
\* 200000 exceeds 2^64 by a tick.
Periods ==
  { NatDec(<<0>>), NatDec(<<4999>>), NatDec(<<5000>>), NatDec(<<20, 0>>),
    NatDec(<<327, 680000>>), NatDec(<<327, 685000>>), NatDec(<<10000, 0>>),
    NatDec(<<150000, 0>>), NatDec(<<200000, 0>>), NatDec(<<92, 233720, 373548>>) }

\* duty_ns: the 1.5 ms servo pulse, the whole period, and 2^48 ns, the
\* smallest duty whose product with 65536 ticks does not fit in 64 bits
\* (duty_ns is not compared with period_ns by the code).
Duties(period_ns) ==
  {NatDec(<<1, 500000>>), period_ns, NatDec(<<281, 474976, 710656>>)}

\* Channel arguments of a call; 2 is no channel of the device.
ChannelArgs == 0..2

Polarities == {SUNXI_PWM_POLARITY_NORMAL, SUNXI_PWM_POLARITY_INVERSED}

\* What the registers may hold when the process starts.
InitialWords == {{}, 0..(WordBits - 1), {0, 2, 4, 6, 9, 20, 31}}

InitialRegs == {[ctrl |-> w, ch_period |-> [ch \in Channels |-> w]] : w \in InitialWords}

\* errno of a failed open("/dev/mem"): ENOENT, EACCES
OpenErrnos == {2, 13}

\* errno of a failed mmap: EPERM, ENOMEM
MmapErrnos == {1, 12}

\* sysconf(_SC_PAGESIZE)
PageSizes == {4096}

\* Page numbers of the address mmap returns.
MapPages == {262144}

(***************************************************************************)
(* The register values of every set_config argument pair, computed once    *)
(***************************************************************************)

ConfigResults ==
  UNION {{[period_ns |-> p, duty_ns |-> d, regs |-> ComputeRegisters(p, d)] :
            d \in Duties(p)} : p \in Periods}

ConfigResult(period_ns, duty_ns) ==
  (CHOOSE r \in ConfigResults : r.period_ns = period_ns /\ r.duty_ns = duty_ns).regs

(***************************************************************************)
(* State                                                                   *)
(***************************************************************************)

VARIABLES
  sunxi_pwm_base_address,   \* the global of pwm.c
  reg,                      \* the device registers: ctrl and ch_period[0..1]
  call,                     \* the last call and its arguments
  ret,                      \* the value the last call returned
  old,                      \* reg when the last call was made
  calls,                    \* calls made so far
  at,                       \* of each thread, the statement it is at
  local,                    \* of each thread, the locals of its call
  sync                      \* whether the callers serialize their calls

vars == <<sunxi_pwm_base_address, reg, call, ret, old, calls, at, local, sync>>

\* The calling threads; the claims about one caller use the first alone.
ThreadIds == {1, 2}

NoArgs ==
  [op |-> "none", ch |-> 0, pol |-> "none", period_ns |-> NatZero, duty_ns |-> NatZero]

\* The locals of a thread that is in no call: c is the call it runs, stmt
\* the number of the read-modify-write statement it is at and tmp the
\* control word it has read for it.
NoLocals ==
  [c |-> NoArgs, prescaler |-> 0, prd |-> {}, dty |-> {}, clk_gating |-> {},
   stmt |-> 0, tmp |-> {}]

Init ==
  /\ sunxi_pwm_base_address = 0
  /\ reg \in InitialRegs
  /\ call = NoArgs
  /\ ret = 0
  /\ old = reg
  /\ calls = 0
  /\ at = [t \in ThreadIds |-> "idle"]
  /\ local = [t \in ThreadIds |-> NoLocals]
  /\ sync = TRUE

\* The call c returns r.
Returns(c, r) ==
  /\ calls' = calls + 1
  /\ call' = c
  /\ ret' = r
  /\ old' = reg
  /\ UNCHANGED <<at, local, sync>>

\* The test left out: the calls go on to the registers whatever the base
\* address is, which C3 excludes.
NotInitialized_Untested(base) == FALSE

\* if (sunxi_pwm_base_address == 0)
NotInitialized(base) == base = 0

(***************************************************************************)
(* sunxi_pwm_init                                                          *)
(***************************************************************************)

sunxi_pwm_init_open_fails ==
  \E e \in OpenErrnos :
    /\ calls < MaxCalls
    /\ Returns([NoArgs EXCEPT !.op = "init"], -e)
    /\ UNCHANGED <<sunxi_pwm_base_address, reg>>

\* The base address stored before mmap is tested: a failed initialize then
\* puts 0 back, and the calls return -EPERM again, which C16 excludes.
sunxi_pwm_init_mmap_fails_ClearsBase ==
  \E e \in MmapErrnos :
    /\ calls < MaxCalls
    /\ Returns([NoArgs EXCEPT !.op = "init"], -e)
    /\ sunxi_pwm_base_address' = 0
    /\ UNCHANGED reg

sunxi_pwm_init_mmap_fails ==
  \E e \in MmapErrnos :
    /\ calls < MaxCalls
    /\ Returns([NoArgs EXCEPT !.op = "init"], -e)
    /\ UNCHANGED <<sunxi_pwm_base_address, reg>>

\* page_mask is ~(page_size - 1), so SUNXI_PWM_IO_BASE & ~page_mask is the
\* remainder of the division by page_size, a power of two.
sunxi_pwm_init_succeeds ==
  \E page_size \in PageSizes, page \in MapPages :
    LET addr_offset == SUNXI_PWM_IO_BASE % page_size
        pc == page * page_size
    IN  /\ calls < MaxCalls
        /\ Returns([NoArgs EXCEPT !.op = "init"], 0)
        /\ sunxi_pwm_base_address' = pc + addr_offset
        /\ UNCHANGED reg

(***************************************************************************)
(* sunxi_pwm_set_polarity                                                  *)
(***************************************************************************)

SetPolarityCtrl(ctrl, ch, pol) ==
  IF pol = SUNXI_PWM_POLARITY_NORMAL
  THEN Or(ctrl, SUNXI_PWM_ACT_STATE(ch))
  ELSE And(ctrl, Not(SUNXI_PWM_ACT_STATE(ch)))

\* A channel argument other than 0 and 1 is followed only up to the test of
\* the base address: past it the shift and the index are out of range.
sunxi_pwm_set_polarity(ch, pol) ==
  LET c == [NoArgs EXCEPT !.op = "set_polarity", !.ch = ch, !.pol = pol]
  IN  /\ calls < MaxCalls
      /\ UNCHANGED sunxi_pwm_base_address
      /\ IF NotInitialized(sunxi_pwm_base_address)
         THEN Returns(c, -EPERM) /\ UNCHANGED reg
         ELSE /\ ch \in Channels
              /\ reg' = [reg EXCEPT !.ctrl = SetPolarityCtrl(@, ch, pol)]
              /\ Returns(c, 0)

(***************************************************************************)
(* sunxi_pwm_set_config                                                    *)
(***************************************************************************)

sunxi_pwm_set_config(ch, period_ns, duty_ns) ==
  LET c == [NoArgs EXCEPT !.op = "set_config", !.ch = ch,
                          !.period_ns = period_ns, !.duty_ns = duty_ns]
  IN  /\ calls < MaxCalls
      /\ UNCHANGED sunxi_pwm_base_address
      /\ IF NotInitialized(sunxi_pwm_base_address)
         THEN Returns(c, -EPERM) /\ UNCHANGED reg
         ELSE /\ ch \in Channels
              /\ LET r == ConfigResult(period_ns, duty_ns)
                 IN  IF r.ret # 0
                     THEN Returns(c, r.ret) /\ UNCHANGED reg
                     ELSE reg' = WriteConfig(reg, ch, r) /\ Returns(c, 0)

(***************************************************************************)
(* sunxi_pwm_enable, sunxi_pwm_disable                                     *)
(***************************************************************************)

EnableCtrl(ctrl, ch) == Or(Or(ctrl, SUNXI_PWM_EN(ch)), SUNXI_PWM_CLK_GATING(ch))

sunxi_pwm_enable(ch) ==
  LET c == [NoArgs EXCEPT !.op = "enable", !.ch = ch]
  IN  /\ calls < MaxCalls
      /\ UNCHANGED sunxi_pwm_base_address
      /\ IF NotInitialized(sunxi_pwm_base_address)
         THEN Returns(c, -EPERM) /\ UNCHANGED reg
         ELSE /\ ch \in Channels
              /\ reg' = [reg EXCEPT !.ctrl = EnableCtrl(@, ch)]
              /\ Returns(c, 0)

\* disable clearing the enable bit alone: the gating bit set by enable then
\* outlives disable, which C7 excludes.
DisableCtrl_KeepsGating(ctrl, ch) == And(ctrl, Not(SUNXI_PWM_EN(ch)))

DisableCtrl(ctrl, ch) ==
  And(And(ctrl, Not(SUNXI_PWM_EN(ch))), Not(SUNXI_PWM_CLK_GATING(ch)))

sunxi_pwm_disable(ch) ==
  LET c == [NoArgs EXCEPT !.op = "disable", !.ch = ch]
  IN  /\ calls < MaxCalls
      /\ UNCHANGED sunxi_pwm_base_address
      /\ IF NotInitialized(sunxi_pwm_base_address)
         THEN Returns(c, -EPERM) /\ UNCHANGED reg
         ELSE /\ ch \in Channels
              /\ reg' = [reg EXCEPT !.ctrl = DisableCtrl(@, ch)]
              /\ Returns(c, 0)

(***************************************************************************)
(* Specification: any sequence of calls by one thread                      *)
(***************************************************************************)

Next ==
  \/ sunxi_pwm_init_open_fails
  \/ sunxi_pwm_init_mmap_fails
  \/ sunxi_pwm_init_succeeds
  \/ \E ch \in ChannelArgs, pol \in Polarities : sunxi_pwm_set_polarity(ch, pol)
  \/ \E ch \in ChannelArgs, p \in Periods :
       \E d \in Duties(p) : sunxi_pwm_set_config(ch, p, d)
  \/ \E ch \in ChannelArgs : sunxi_pwm_enable(ch)
  \/ \E ch \in ChannelArgs : sunxi_pwm_disable(ch)

Spec == Init /\ [][Next]_vars

(***************************************************************************)
(* Specification: sunxi_pwm_set_config statement by statement.  One thread *)
(* calls; between the entry of set_config and its return each step is one  *)
(* of the statements of lines 140 to 147.                                  *)
(***************************************************************************)

\* The arguments of the calls that are followed statement by statement.
StepConfigs ==
  { <<NatDec(<<20, 0>>), NatDec(<<1, 500000>>)>>,
    <<NatDec(<<10000, 0>>), NatDec(<<10000, 0>>)>>,
    <<NatDec(<<200000, 0>>), NatDec(<<1, 500000>>)>> }

\* Thread t goes on to the statement at line l.
Goto(t, l) == at' = [at EXCEPT ![t] = l]

\* Lines 113 to 136 touch no register: the entry, the test of the base
\* address, the search and the duty computation are one step.
config_call(t, ch, period_ns, duty_ns) ==
  LET c == [NoArgs EXCEPT !.op = "set_config", !.ch = ch,
                          !.period_ns = period_ns, !.duty_ns = duty_ns]
  IN  /\ at[t] = "idle"
      /\ calls < MaxCalls
      /\ UNCHANGED <<sunxi_pwm_base_address, sync>>
      /\ IF NotInitialized(sunxi_pwm_base_address)
         THEN Returns(c, -EPERM) /\ UNCHANGED reg
         ELSE /\ ch \in Channels
              /\ LET r == ConfigResult(period_ns, duty_ns)
                 IN  IF r.ret # 0
                     THEN Returns(c, r.ret) /\ UNCHANGED reg
                     ELSE /\ local' = [local EXCEPT ![t] =
                                         [NoLocals EXCEPT !.c = c,
                                                          !.prescaler = r.prescaler,
                                                          !.prd = r.prd,
                                                          !.dty = r.dty]]
                          /\ Goto(t, "l140")
                          /\ old' = reg
                          /\ UNCHANGED <<reg, call, ret, calls>>

\* clk_gating = reg->ctrl & SUNXI_PWM_CLK_GATING(ch);
config_l140(t) ==
  /\ at[t] = "l140"
  /\ local' = [local EXCEPT ![t].clk_gating =
                 And(reg.ctrl, SUNXI_PWM_CLK_GATING(local[t].c.ch))]
  /\ Goto(t, "l141")
  /\ UNCHANGED <<sunxi_pwm_base_address, reg, call, ret, old, calls, sync>>

\* Line 141 left out: the prescaler and the period are then written with
\* the clock gating on, which C12 excludes.
config_l141_GatingKept(t) ==
  /\ at[t] = "l141"
  /\ Goto(t, "l142")
  /\ UNCHANGED <<sunxi_pwm_base_address, reg, call, ret, old, calls, local, sync>>

\* reg->ctrl &= ~SUNXI_PWM_CLK_GATING(ch);
config_l141(t) ==
  /\ at[t] = "l141"
  /\ reg' = [reg EXCEPT !.ctrl = And(@, Not(SUNXI_PWM_CLK_GATING(local[t].c.ch)))]
  /\ Goto(t, "l142")
  /\ UNCHANGED <<sunxi_pwm_base_address, call, ret, old, calls, local, sync>>

\* reg->ctrl &= ~SUNXI_PWM_PRESCALAR(ch, 0x0000000F);
config_l142(t) ==
  /\ at[t] = "l142"
  /\ reg' = [reg EXCEPT !.ctrl =
               And(@, Not(SUNXI_PWM_PRESCALAR(local[t].c.ch, IntBits(15))))]
  /\ Goto(t, "l143")
  /\ UNCHANGED <<sunxi_pwm_base_address, call, ret, old, calls, local, sync>>

\* reg->ctrl |= SUNXI_PWM_PRESCALAR(ch, prescaler);
config_l143(t) ==
  /\ at[t] = "l143"
  /\ reg' = [reg EXCEPT !.ctrl =
               Or(@, SUNXI_PWM_PRESCALAR(local[t].c.ch, IntBits(local[t].prescaler)))]
  /\ Goto(t, "l144")
  /\ UNCHANGED <<sunxi_pwm_base_address, call, ret, old, calls, local, sync>>

\* reg->ch_period[ch] = ((prd - 1) << 16) + (dty & 0xFFFF);
config_l144(t) ==
  /\ at[t] = "l144"
  /\ reg' = [reg EXCEPT !.ch_period[local[t].c.ch] =
               PackPeriod(local[t].prd, local[t].dty)]
  /\ Goto(t, "l145")
  /\ UNCHANGED <<sunxi_pwm_base_address, call, ret, old, calls, local, sync>>

\* if (clk_gating) reg->ctrl |= SUNXI_PWM_CLK_GATING(ch);
config_l145(t) ==
  /\ at[t] = "l145"
  /\ reg' = [reg EXCEPT !.ctrl = RestoreGating(@, local[t].c.ch, local[t].clk_gating)]
  /\ Goto(t, "l147")
  /\ UNCHANGED <<sunxi_pwm_base_address, call, ret, old, calls, local, sync>>

\* return 0;
config_l147(t) ==
  /\ at[t] = "l147"
  /\ calls' = calls + 1
  /\ call' = local[t].c
  /\ ret' = 0
  /\ local' = [local EXCEPT ![t] = NoLocals]
  /\ Goto(t, "idle")
  /\ UNCHANGED <<sunxi_pwm_base_address, reg, old, sync>>

NextConfigSteps ==
  \/ at[1] = "idle" /\ sunxi_pwm_init_succeeds
  \/ \E ch \in ChannelArgs, a \in StepConfigs : config_call(1, ch, a[1], a[2])
  \/ config_l140(1)
  \/ config_l141(1)
  \/ config_l142(1)
  \/ config_l143(1)
  \/ config_l144(1)
  \/ config_l145(1)
  \/ config_l147(1)

SpecConfigSteps == Init /\ [][NextConfigSteps]_vars

(***************************************************************************)
(* Specification: two threads, one call each, thread 1 on channel 0 and    *)
(* thread 2 on channel 1.  The statements reg->ctrl |= m and               *)
(* reg->ctrl &= ~m are a read of the control word and a write of it, two   *)
(* steps; pwm.c takes no lock.  With sync the callers serialize: no call   *)
(* is entered while the other thread is inside one.                        *)
(***************************************************************************)

\* The base addresses sunxi_pwm_init stores when it succeeds.
MappedAddresses ==
  {page * page_size + (SUNXI_PWM_IO_BASE % page_size) :
     page_size \in PageSizes, page \in MapPages}

\* The calls of thread t.
ThreadCalls(t) ==
  {[NoArgs EXCEPT !.op = "enable", !.ch = t - 1],
   [NoArgs EXCEPT !.op = "disable", !.ch = t - 1]}
  \cup {[NoArgs EXCEPT !.op = "set_polarity", !.ch = t - 1, !.pol = pol] :
          pol \in Polarities}

\* The read-modify-write statements of the call c on the control register,
\* in their order: set tells |= from &= ~.
Statements(c) ==
  IF c.op = "enable"
  THEN << [set |-> TRUE, mask |-> SUNXI_PWM_EN(c.ch)],
          [set |-> TRUE, mask |-> SUNXI_PWM_CLK_GATING(c.ch)] >>
  ELSE IF c.op = "disable"
  THEN << [set |-> FALSE, mask |-> SUNXI_PWM_EN(c.ch)],
          [set |-> FALSE, mask |-> SUNXI_PWM_CLK_GATING(c.ch)] >>
  ELSE IF c.pol = SUNXI_PWM_POLARITY_NORMAL
  THEN << [set |-> TRUE, mask |-> SUNXI_PWM_ACT_STATE(c.ch)] >>
  ELSE << [set |-> FALSE, mask |-> SUNXI_PWM_ACT_STATE(c.ch)] >>

\* The mask stored in place of the word read: the write then drops the
\* bits of the other channel even when the calls are serialized, which C13
\* excludes.
StatementValue_Overwrites(s, word) == IF s.set THEN s.mask ELSE {}

\* The word the statement s writes, having read word.
StatementValue(s, word) ==
  IF s.set THEN Or(word, s.mask) ELSE And(word, Not(s.mask))

InitThreads ==
  /\ sunxi_pwm_base_address \in MappedAddresses
  /\ reg \in InitialRegs
  /\ call = NoArgs
  /\ ret = 0
  /\ old = reg
  /\ calls = 0
  /\ at = [t \in ThreadIds |-> "idle"]
  /\ local = [t \in ThreadIds |-> NoLocals]
  /\ sync \in BOOLEAN

\* Thread t is inside a call.
InCall(t) == at[t] \in {"read", "write", "return"}

\* Thread t enters the call c and tests the base address.
thread_call(t, c) ==
  /\ at[t] = "idle"
  /\ sync => \A u \in ThreadIds \ {t} : ~InCall(u)
  /\ UNCHANGED <<sunxi_pwm_base_address, reg, old, sync>>
  /\ local' = [local EXCEPT ![t] = [NoLocals EXCEPT !.c = c, !.stmt = 1]]
  /\ IF NotInitialized(sunxi_pwm_base_address)
     THEN /\ calls' = calls + 1 /\ call' = c /\ ret' = -EPERM
          /\ Goto(t, "done")
     ELSE /\ c.ch \in Channels
          /\ Goto(t, "read")
          /\ UNCHANGED <<call, ret, calls>>

\* Thread t reads reg->ctrl for its statement.
thread_read(t) ==
  /\ at[t] = "read"
  /\ local' = [local EXCEPT ![t].tmp = reg.ctrl]
  /\ Goto(t, "write")
  /\ UNCHANGED <<sunxi_pwm_base_address, reg, call, ret, old, calls, sync>>

\* Thread t writes reg->ctrl and goes on to its next statement, or to the
\* return after its last.
thread_write(t) ==
  LET stmts == Statements(local[t].c)
  IN  /\ at[t] = "write"
      /\ reg' = [reg EXCEPT !.ctrl = StatementValue(stmts[local[t].stmt], local[t].tmp)]
      /\ IF local[t].stmt < Len(stmts)
         THEN /\ local' = [local EXCEPT ![t].stmt = @ + 1]
              /\ Goto(t, "read")
         ELSE /\ UNCHANGED local
              /\ Goto(t, "return")
      /\ UNCHANGED <<sunxi_pwm_base_address, call, ret, old, calls, sync>>

\* return 0;
thread_return(t) ==
  /\ at[t] = "return"
  /\ calls' = calls + 1
  /\ call' = local[t].c
  /\ ret' = 0
  /\ Goto(t, "done")
  /\ UNCHANGED <<sunxi_pwm_base_address, reg, old, local, sync>>

NextThreads ==
  \/ \E t \in ThreadIds : \E c \in ThreadCalls(t) : thread_call(t, c)
  \/ \E t \in ThreadIds : thread_read(t)
  \/ \E t \in ThreadIds : thread_write(t)
  \/ \E t \in ThreadIds : thread_return(t)

SpecThreads == InitThreads /\ [][NextThreads]_vars

(***************************************************************************)
(* What the claims speak of: register fields by their bit numbers, and the *)
(* tick counts of the specification in exact arithmetic                    *)
(***************************************************************************)

RECURSIVE WordValue(_)
WordValue(w) ==
  IF w = {} THEN 0
  ELSE LET b == CHOOSE x \in w : TRUE IN 2^b + WordValue(w \ {b})

\* The number in the n bits of w from bit lo on (n <= 16).
Field(w, lo, n) == WordValue({b - lo : b \in w \cap lo..(lo + n - 1)})

EnableBit(ch) == 4 + 15 * ch

PolarityBit(ch) == 5 + 15 * ch

GatingBit(ch) == 6 + 15 * ch

PrescalerBits(ch) == (15 * ch)..(15 * ch + 3)

PrescalerField(w, ch) == Field(w, 15 * ch, 4)

PeriodField(w) == Field(w, 16, 16)

DutyField(w) == Field(w, 0, 16)

\* The table indexes whose divisor is not zero.
ValidIndexes == {i \in 0..15 : prescaler_table[i + 1] # 0}

\* (24000000 div divisor_i) * period_ns, not reduced modulo 2^64.
ExactProduct(i, period_ns) ==
  NatMulSmall(period_ns, 24000000 \div prescaler_table[i + 1])

\* ticks_i = floor((24000000 div divisor_i) * period_ns / 1000000000) of
\* every valid index and period, computed once.
ExactTickTable ==
  {[i |-> i, period_ns |-> p,
    ticks |-> NatDiv(ExactProduct(i, p), NatDec(<<1000, 0>>))] :
     i \in ValidIndexes, p \in Periods}

ExactTicks(i, period_ns) ==
  IF i \in ValidIndexes
  THEN (CHOOSE r \in ExactTickTable : r.i = i /\ r.period_ns = period_ns).ticks
  ELSE NatZero

\* The periods for which some product (24000000 div divisor_i) * period_ns
\* is 2^64 or more.
WrappingPeriods ==
  {p \in Periods : \E i \in ValidIndexes : ExactProduct(i, p) # Wrap64(ExactProduct(i, p))}

ProductWraps(period_ns) == period_ns \in WrappingPeriods

\* ticks_i <= 65536
ExactFits(i, period_ns) == NatLeq(ExactTicks(i, period_ns), IntToNat(65536))

\* No table entry yields ticks <= 65536.
NoEntryFits(period_ns) == \A i \in ValidIndexes : ~ExactFits(i, period_ns)

\* The low 16 bits of floor(ticks_i * duty_ns / period_ns), for every index
\* with ticks_i <= 65536 and every argument pair with a period, computed once.
ExactDutyTable ==
  UNION {UNION {{[i |-> i, period_ns |-> p, duty_ns |-> d,
                  low16 |-> Bind(NatDiv(NatMulSmall(d, NatToInt(ExactTicks(i, p))), p),
                                 LAMBDA q : q[1] + Base * q[2])] :
                   i \in {k \in ValidIndexes : ExactFits(k, p)}} :
                d \in Duties(p)} :
         p \in Periods \ {NatZero}}

ExactDutyLow16(i, period_ns, duty_ns) ==
  (CHOOSE r \in ExactDutyTable :
     r.i = i /\ r.period_ns = period_ns /\ r.duty_ns = duty_ns).low16

\* div as lines 124 to 127 compute it, in __u64, for every valid index and
\* period, computed once.
CodeTickTable ==
  {[i |-> i, period_ns |-> p, ticks |-> PeriodTicks(i, p)] :
     i \in ValidIndexes, p \in Periods}

CodeTicks(i, period_ns) ==
  (CHOOSE r \in CodeTickTable : r.i = i /\ r.period_ns = period_ns).ticks

Initialized == sunxi_pwm_base_address # 0

\* The last call was set_config on channel 0 or 1 of an initialized interface.
ConfigCalled == call.op = "set_config" /\ Initialized /\ call.ch \in Channels

ConfigSucceeded == ConfigCalled /\ ret = 0

(***************************************************************************)
(* Claims                                                                  *)
(***************************************************************************)

\* C1: a successful set_config(ch, period_ns, duty_ns) with period_ns >= 5000
\* whose products (24000000 div divisor_i) * period_ns stay below 2^64 writes
\* into bits 15*ch .. 15*ch+3 of ctrl the smallest index with a nonzero
\* divisor whose exact tick count is at most 65536.
C1_SmallestFittingPrescaler ==
  (/\ ConfigSucceeded
   /\ NatLeq(IntToNat(5000), call.period_ns)
   /\ ~ProductWraps(call.period_ns))
  => LET i == PrescalerField(reg.ctrl, call.ch)
     IN  /\ i \in ValidIndexes
         /\ ExactFits(i, call.period_ns)
         /\ \A j \in ValidIndexes : j < i => ~ExactFits(j, call.period_ns)

\* C1 witness: such a call for which the search went past index 0, up to
\* the last divisor of the table.
C1_Witness ==
  /\ ConfigSucceeded
  /\ NatLeq(IntToNat(5000), call.period_ns)
  /\ ~ProductWraps(call.period_ns)
  /\ PrescalerField(reg.ctrl, call.ch) = 12
  /\ PrescalerField(old.ctrl, call.ch) # 12

\* C2: a set_config call on an initialized interface for which no table entry
\* yields ticks <= 65536 returns -EINVAL and leaves ctrl and both period
\* registers as they were.
C2_NoFitRejected ==
  (ConfigCalled /\ NoEntryFits(call.period_ns)) => (ret = -EINVAL /\ reg = old)

\* C3: while no initialize call has succeeded, set_polarity, set_config,
\* enable and disable return -EPERM for any arguments and leave ctrl and both
\* period registers unchanged.
C3_NotInitializedRejected ==
  (/\ call.op \in {"set_polarity", "set_config", "enable", "disable"}
   /\ sunxi_pwm_base_address = 0)
  => (ret = -EPERM /\ reg = old)

\* C3 witness: set_config with a channel argument that is no channel, before
\* any initialize, on registers that are not zero.
C3_Witness ==
  /\ call.op = "set_config"
  /\ call.ch \notin Channels
  /\ call.period_ns = NatDec(<<20, 0>>)
  /\ sunxi_pwm_base_address = 0
  /\ ret = -EPERM
  /\ reg.ctrl # {}

\* C4: a successful set_config(ch, ...) leaves ch's clock-gating bit as it
\* was, on or off, and changes neither ch's enable and polarity bits, nor any
\* ctrl bit outside ch's prescaler field, nor the other channel's period
\* register.
C4_ConfigKeepsGating ==
  ConfigSucceeded
  => /\ (GatingBit(call.ch) \in reg.ctrl) = (GatingBit(call.ch) \in old.ctrl)
     /\ (EnableBit(call.ch) \in reg.ctrl) = (EnableBit(call.ch) \in old.ctrl)
     /\ (PolarityBit(call.ch) \in reg.ctrl) = (PolarityBit(call.ch) \in old.ctrl)
     /\ reg.ctrl \ PrescalerBits(call.ch) = old.ctrl \ PrescalerBits(call.ch)
     /\ reg.ch_period[1 - call.ch] = old.ch_period[1 - call.ch]

\* C4 witness: a successful set_config on a channel whose clock gating is on,
\* which changes the prescaler field and the period register.
C4_Witness ==
  /\ ConfigSucceeded
  /\ GatingBit(call.ch) \in old.ctrl
  /\ GatingBit(call.ch) \in reg.ctrl
  /\ reg.ctrl # old.ctrl
  /\ reg.ch_period[call.ch] # old.ch_period[call.ch]

\* C5: on an initialized interface set_polarity(ch, pol), ch in {0,1}, returns
\* 0 and changes at most bit 5+15*ch of ctrl, set for normal and cleared for
\* inversed; every other ctrl bit and both period registers are unchanged.
C5_PolarityChangesOneBit ==
  (call.op = "set_polarity" /\ Initialized /\ call.ch \in Channels)
  => /\ ret = 0
     /\ reg.ctrl \ {PolarityBit(call.ch)} = old.ctrl \ {PolarityBit(call.ch)}
     /\ (call.pol = SUNXI_PWM_POLARITY_NORMAL) => (PolarityBit(call.ch) \in reg.ctrl)
     /\ (call.pol = SUNXI_PWM_POLARITY_INVERSED) => (PolarityBit(call.ch) \notin reg.ctrl)
     /\ reg.ch_period = old.ch_period

\* C5 witness: set_polarity(1, inversed) clearing a bit that was set, with
\* other bits of ctrl set.
C5_Witness ==
  /\ call.op = "set_polarity" /\ Initialized /\ call.ch = 1
  /\ call.pol = SUNXI_PWM_POLARITY_INVERSED
  /\ PolarityBit(1) \in old.ctrl
  /\ PolarityBit(1) \notin reg.ctrl
  /\ reg.ctrl # {}

\* C6: on an initialized interface enable(ch) sets exactly bits 4+15*ch and
\* 6+15*ch of ctrl and disable(ch) clears exactly those two; neither changes
\* any other ctrl bit or a period register.
C6_EnableDisableBits ==
  /\ (call.op = "enable" /\ Initialized /\ call.ch \in Channels)
     => /\ ret = 0
        /\ reg.ctrl = old.ctrl \cup {EnableBit(call.ch), GatingBit(call.ch)}
        /\ reg.ch_period = old.ch_period
  /\ (call.op = "disable" /\ Initialized /\ call.ch \in Channels)
     => /\ ret = 0
        /\ reg.ctrl = old.ctrl \ {EnableBit(call.ch), GatingBit(call.ch)}
        /\ reg.ch_period = old.ch_period

\* C6 witness: disable(1) clearing both bits on registers that hold a
\* configuration.
C6_Witness ==
  /\ call.op = "disable" /\ Initialized /\ call.ch = 1
  /\ {EnableBit(1), GatingBit(1)} \subseteq old.ctrl
  /\ reg.ctrl \cap {EnableBit(1), GatingBit(1)} = {}
  /\ reg.ch_period[1] # {}
  /\ PrescalerField(reg.ctrl, 1) # 0

\* enable(ch) returned 0 and the next call is disable(ch), returning 0.
EnableThenDisable ==
  /\ call.op = "enable" /\ ret = 0
  /\ call'.op = "disable" /\ ret' = 0
  /\ call'.ch = call.ch

\* C7, as claimed: enable(ch); disable(ch) leaves ch's enable bit and
\* clock-gating bit equal to the values they had before the enable call.
C7_AsClaimed ==
  [][EnableThenDisable
     => reg'.ctrl \cap {EnableBit(call.ch), GatingBit(call.ch)}
        = old.ctrl \cap {EnableBit(call.ch), GatingBit(call.ch)}]_vars

\* C7, amended: enable(ch); disable(ch) leaves ch's enable bit and
\* clock-gating bit cleared, so they equal the values before the enable call
\* exactly when both were clear then.
C7_EnableThenDisableClears ==
  [][EnableThenDisable
     => LET bits == {EnableBit(call.ch), GatingBit(call.ch)}
        IN  /\ reg'.ctrl \cap bits = {}
            /\ (reg'.ctrl \cap bits = old.ctrl \cap bits) <=> (old.ctrl \cap bits = {})]_vars

\* C7 witness: disable(0) after enable(0) on a control register that was
\* zero: {4, 6} is reached from the initial words only by enable(0).
C7_Witness ==
  /\ call.op = "disable" /\ call.ch = 0 /\ ret = 0
  /\ old.ctrl = {EnableBit(0), GatingBit(0)}
  /\ reg.ctrl = {}

\* The servo call of C8.
ServoCalled ==
  /\ ConfigCalled
  /\ call.period_ns = NatDec(<<20, 0>>)
  /\ call.duty_ns = NatDec(<<1, 500000>>)

\* C8, as claimed: for period_ns = 20,000,000 and duty_ns = 1,500,000 the tick
\* count at divisor 120 fails the 16-bit limit, the prescaler written has a
\* divisor larger than 120, and the duty field is
\* floor(ticks_chosen * 1,500,000 / 20,000,000).
C8_AsClaimed ==
  ServoCalled
  => LET i == PrescalerField(reg.ctrl, call.ch)
     IN  /\ ret = 0
         /\ ~ExactFits(0, call.period_ns)
         /\ prescaler_table[i + 1] > 120
         /\ DutyField(reg.ch_period[call.ch])
            = ExactDutyLow16(i, call.period_ns, call.duty_ns)

\* C8, amended: for period_ns = 20,000,000 and duty_ns = 1,500,000 the tick
\* count at divisor 120 is 4000, which meets the 16-bit limit, so the
\* prescaler written is index 0 (divisor 120), the period field is 3999 and
\* the duty field is floor(4000 * 1,500,000 / 20,000,000) = 300.
C8_ServoConfig ==
  ServoCalled
  => LET i == PrescalerField(reg.ctrl, call.ch)
     IN  /\ ret = 0
         /\ ExactTicks(0, call.period_ns) = IntToNat(4000)
         /\ ExactFits(0, call.period_ns)
         /\ i = 0
         /\ prescaler_table[i + 1] = 120
         /\ PeriodField(reg.ch_period[call.ch]) = 3999
         /\ DutyField(reg.ch_period[call.ch]) = 300
         /\ DutyField(reg.ch_period[call.ch])
            = ExactDutyLow16(i, call.period_ns, call.duty_ns)

\* C8 witness: the servo call on channel 1, replacing another prescaler.
C8_Witness ==
  /\ ServoCalled /\ call.ch = 1 /\ ret = 0
  /\ PrescalerField(old.ctrl, 1) = 15
  /\ PrescalerField(reg.ctrl, 1) = 0

\* C9, as claimed: for period_ns = 10,000,000,000 no table entry yields
\* ticks <= 65536; the call returns -EINVAL and modifies no register.
C9_AsClaimed ==
  (ConfigCalled /\ call.period_ns = NatDec(<<10000, 0>>))
  => (NoEntryFits(call.period_ns) /\ ret = -EINVAL /\ reg = old)

\* C9, amended: for period_ns = 10,000,000,000 the divisor 12000 (index 8)
\* yields 20000 ticks: the call returns 0 and writes prescaler 8 and period
\* count 19999.  For period_ns = 200,000,000,000 no table entry yields
\* ticks <= 65536: the call returns -EINVAL and modifies no register.
C9_TenSecondsAccepted ==
  /\ (ConfigCalled /\ call.period_ns = NatDec(<<10000, 0>>))
     => /\ ExactTicks(8, call.period_ns) = IntToNat(20000)
        /\ ~NoEntryFits(call.period_ns)
        /\ ret = 0
        /\ PrescalerField(reg.ctrl, call.ch) = 8
        /\ PeriodField(reg.ch_period[call.ch]) = 19999
  /\ (ConfigCalled /\ call.period_ns = NatDec(<<200000, 0>>))
     => (NoEntryFits(call.period_ns) /\ ret = -EINVAL /\ reg = old)

\* C9 witness: the 200 s call is rejected on registers that hold the
\* prescaler and the period count written by an accepted 10 s call (19999
\* is in no initial period register).
C9_Witness ==
  /\ ConfigCalled /\ call.period_ns = NatDec(<<200000, 0>>)
  /\ ret = -EINVAL
  /\ reg = old
  /\ PrescalerField(reg.ctrl, call.ch) = 8
  /\ PeriodField(reg.ch_period[call.ch]) = 19999

\* C10: a successful set_config(ch, period_ns, duty_ns) writes ch's period
\* register with bits 31..16 equal to ticks - 1 and bits 15..0 equal to the
\* low 16 bits of floor(ticks * duty_ns / period_ns), ticks being the tick
\* count floor((24000000 div divisor) * period_ns / 1000000000) of the
\* prescaler written.
C10_PeriodRegister ==
  ConfigSucceeded
  => LET i    == PrescalerField(reg.ctrl, call.ch)
         word == reg.ch_period[call.ch]
     IN  /\ IntToNat(PeriodField(word)) = NatSub(ExactTicks(i, call.period_ns), NatOne)
         /\ DutyField(word) = ExactDutyLow16(i, call.period_ns, call.duty_ns)

\* A set_config call on channel 0 or 1 of an initialized interface is
\* followed at once by a set_config call with the same arguments.
ConfigRepeated ==
  /\ ConfigCalled
  /\ calls' = calls + 1
  /\ call' = call

\* C11: on an initialized interface, for any prior register state and any
\* arguments, the second of two set_config calls in a row with identical
\* arguments returns what the first returned and leaves ctrl and both
\* period registers as the first left them.
C11_ConfigIdempotent ==
  [][ConfigRepeated => (ret' = ret /\ reg' = reg)]_vars

\* C11 witness: a successful servo call made on registers that already hold
\* what it writes (3999 and 300 are in no initial period register).
C11_Witness ==
  /\ ServoCalled /\ ret = 0
  /\ reg = old
  /\ PeriodField(reg.ch_period[call.ch]) = 3999
  /\ DutyField(reg.ch_period[call.ch]) = 300
  /\ calls = 3

\* The statement at which the one caller of SpecConfigSteps is, and the
\* channel of its call.
ConfigAt(l) == at[1] = l

ConfigCh == local[1].c.ch

\* C12: within a successful set_config(ch, ...) the clock-gating bit of ch
\* is cleared first, then the prescaler field of ch is cleared and
\* rewritten, then the period register of ch is written, and only then is
\* the gating bit restored: in every step that writes the prescaler field
\* or the period register the gating bit of ch is 0 before and after, the
\* period is written onto the final prescaler, and the gating bit is set
\* again only onto the final period register.
C12_GatingOffWhileWriting ==
  [][LET g == GatingBit(ConfigCh)
     IN  /\ (ConfigAt("l142") \/ ConfigAt("l143") \/ ConfigAt("l144"))
            => (g \notin reg.ctrl /\ g \notin reg'.ctrl)
         /\ (g \in reg.ctrl /\ g \notin reg'.ctrl)
            => /\ ConfigAt("l141")
               /\ reg'.ctrl = old.ctrl \ {g}
               /\ reg'.ch_period = old.ch_period
         /\ (PrescalerField(reg'.ctrl, ConfigCh) # PrescalerField(reg.ctrl, ConfigCh))
            => /\ (ConfigAt("l142") \/ ConfigAt("l143"))
               /\ reg'.ch_period = old.ch_period
         /\ (reg'.ch_period # reg.ch_period)
            => /\ ConfigAt("l144")
               /\ PrescalerField(reg.ctrl, ConfigCh) = local[1].prescaler
         /\ (g \notin reg.ctrl /\ g \in reg'.ctrl)
            => /\ ConfigAt("l145")
               /\ PrescalerField(reg.ctrl, ConfigCh) = local[1].prescaler
               /\ reg.ch_period[ConfigCh] = PackPeriod(local[1].prd, local[1].dty)
         /\ ConfigAt("l147") => reg = WriteConfig(old, ConfigCh, ConfigResult(local[1].c.period_ns, local[1].c.duty_ns))]_vars

\* C12 witness: a call on a channel whose gating was on has written a new
\* prescaler and a new period and is about to restore the gating bit, which
\* is still 0.
C12_Witness ==
  /\ ConfigAt("l145")
  /\ local[1].clk_gating # {}
  /\ GatingBit(ConfigCh) \in old.ctrl
  /\ GatingBit(ConfigCh) \notin reg.ctrl
  /\ PrescalerField(reg.ctrl, ConfigCh) # PrescalerField(old.ctrl, ConfigCh)
  /\ reg.ch_period[ConfigCh] # old.ch_period[ConfigCh]

\* The control word the call c leaves when it runs alone on ctrl.
CallCtrl(c, ctrl) ==
  IF c.op = "enable" THEN EnableCtrl(ctrl, c.ch)
  ELSE IF c.op = "disable" THEN DisableCtrl(ctrl, c.ch)
  ELSE SetPolarityCtrl(ctrl, c.ch, c.pol)

\* The control register holds the bit changes of the call of thread t.
HasChange(t) == CallCtrl(local[t].c, reg.ctrl) = reg.ctrl

BothReturned == \A t \in ThreadIds : at[t] = "done"

\* C13: two threads run one control-register call each, on different
\* channels, every read-modify-write being a read and a write of the shared
\* word.  When the calls are serialized every final state holds the
\* changes of both threads, and nothing else has changed; when they are
\* not, a final state that has lost the change of one thread is reachable
\* (C13_Witness).
C13_SerializedKeepsBoth ==
  (sync /\ BothReturned)
  => /\ \A t \in ThreadIds : HasChange(t)
     /\ reg.ctrl = CallCtrl(local[2].c, CallCtrl(local[1].c, old.ctrl))
     /\ reg.ch_period = old.ch_period

\* C13 witness: enable(0) and enable(1) without serialization have both
\* returned 0, and the enable bit of channel 0 that thread 1 set is gone.
C13_Witness ==
  /\ ~sync
  /\ BothReturned
  /\ ret = 0
  /\ local[1].c.op = "enable" /\ local[1].c.ch = 0
  /\ local[2].c.op = "enable" /\ local[2].c.ch = 1
  /\ EnableBit(0) \notin reg.ctrl
  /\ ~HasChange(1)

\* C14: for every period_ns the product (24000000 div divisor) * period_ns
\* does not wrap modulo 2^64, so the tick count set_config compares with
\* the 16-bit limit is floor((24000000 div divisor) * period_ns / 10^9) at
\* every divisor, and a call that succeeds has written a prescaler whose
\* exact tick count is at most 65536.
C14_TicksExact ==
  ConfigCalled
  => /\ ~ProductWraps(call.period_ns)
     /\ \A i \in ValidIndexes :
          CodeTicks(i, call.period_ns) = ExactTicks(i, call.period_ns)
     /\ ret = 0 => ExactFits(PrescalerField(reg.ctrl, call.ch), call.period_ns)

\* The valid indexes and periods whose div passes div - 1 <= 0xFFFF.
CodeFits ==
  {<<r.i, r.period_ns>> : r \in {x \in CodeTickTable : TicksFit(x.ticks)}}

\* The search of set_config finds no index: at every valid index the div
\* of the code fails div - 1 <= 0xFFFF.
SearchFails(period_ns) ==
  \A i \in ValidIndexes : <<i, period_ns>> \notin CodeFits

\* C15: set_config does not return success after its search loop has run
\* through the table without a match; when it returns success the
\* prescaler written is an index with a nonzero divisor (one of 0, 1, 2, 3,
\* 4, 8, 9, 10, 11, 12), not 15, and the tick count in the period field is
\* the div computed for that index, which passed the test of the loop.
C15_SuccessHasValidIndex ==
  /\ (ConfigCalled /\ SearchFails(call.period_ns)) => (ret = -EINVAL /\ reg = old)
  /\ ConfigSucceeded
     => LET i == PrescalerField(reg.ctrl, call.ch)
        IN  /\ i \in {0, 1, 2, 3, 4, 8, 9, 10, 11, 12}
            /\ i # 15
            /\ prescaler_table[i + 1] # 0
            /\ <<i, call.period_ns>> \in CodeFits
            /\ \A j \in ValidIndexes : j < i => <<j, call.period_ns>> \notin CodeFits
            /\ IntToNat(PeriodField(reg.ch_period[call.ch]))
               = U64Sub(CodeTicks(i, call.period_ns), NatOne)

\* C15 witness: a successful call whose search went through the zero slots
\* 5, 6, 7 and stopped at the last divisor of the table, on a channel whose
\* prescaler field held 15.
C15_Witness ==
  /\ ConfigSucceeded
  /\ call.period_ns = NatDec(<<150000, 0>>)
  /\ PrescalerField(old.ctrl, call.ch) = 15
  /\ PrescalerField(reg.ctrl, call.ch) = 12
  /\ PeriodField(reg.ch_period[call.ch]) = 49949

\* The step is a call of op that returns.
CallReturns(op) == calls' = calls + 1 /\ call'.op = op

\* C16: an initialize call that fails returns a negative error code and
\* leaves the stored base address as it was, and one that succeeds stores a
\* base address that is not 0; so while no initialize has succeeded every
\* control operation returns -EPERM, and once one has succeeded no later
\* call, a failed initialize included, takes the base address back to 0 or
\* makes set_polarity, enable or disable return -EPERM.
C16_InitializedIsMonotone ==
  [][/\ (CallReturns("init") /\ ret' # 0)
        => (ret' < 0 /\ sunxi_pwm_base_address' = sunxi_pwm_base_address)
     /\ (CallReturns("init") /\ ret' = 0) => sunxi_pwm_base_address' # 0
     /\ ~CallReturns("init") => sunxi_pwm_base_address' = sunxi_pwm_base_address
     /\ sunxi_pwm_base_address # 0 => sunxi_pwm_base_address' # 0
     /\ \A op \in {"set_polarity", "set_config", "enable", "disable"} :
          (CallReturns(op) /\ sunxi_pwm_base_address = 0)
          => (ret' = -EPERM /\ reg' = reg)
     /\ \A op \in {"set_polarity", "enable", "disable"} :
          (CallReturns(op) /\ sunxi_pwm_base_address # 0)
          => (ret' = 0 /\ ret' # -EPERM)]_vars

\* C16 witness: an initialize call has failed in mmap after an earlier one
\* succeeded, and the base address is still the mapped one.
C16_Witness ==
  /\ call.op = "init"
  /\ -ret \in MmapErrnos
  /\ Initialized
  /\ sunxi_pwm_base_address \in MappedAddresses

\* C17: on an initialized interface set_config with period_ns = 0, or with
\* any period_ns below 5000, for which the tick count is 0 at every
\* prescaler, returns -EINVAL and modifies no register: for a tick count of
\* 0, ticks - 1 wraps to 2^64 - 1 and fails the 16-bit limit, so the search
\* finds no index and the call returns before the division by period_ns.
\* At period_ns = 5000 the tick count at divisor 120 is 1.
C17_ShortPeriodRejected ==
  /\ (ConfigCalled /\ NatLeq(call.period_ns, IntToNat(4999)))
     => /\ \A i \in ValidIndexes :
             /\ ExactTicks(i, call.period_ns) = NatZero
             /\ CodeTicks(i, call.period_ns) = NatZero
        /\ U64Sub(NatZero, NatOne) = Wrap64(NatSub(NatZero, NatOne))
        /\ ~NatLeq(U64Sub(NatZero, NatOne), IntToNat(65535))
        /\ SearchFails(call.period_ns)
        /\ ret = -EINVAL
        /\ reg = old
  /\ (ConfigCalled /\ call.period_ns = IntToNat(5000))
     => (ExactTicks(0, call.period_ns) = NatOne /\ ret = 0)

\* C17 witness: set_config with period_ns = 0 and duty_ns = 0 is rejected
\* on registers that hold an earlier configuration.
C17_Witness ==
  /\ ConfigCalled
  /\ call.period_ns = NatZero
  /\ call.duty_ns = NatZero
  /\ ret = -EINVAL
  /\ reg = old
  /\ PeriodField(reg.ch_period[call.ch]) = 3999

\* floor(ticks * duty_ns / period_ns) in exact arithmetic, ticks being the
\* div of the prescaler set_config chooses, for every accepted argument
\* pair with duty_ns <= period_ns, computed once.
DutyQuotientTable ==
  UNION {{[period_ns |-> p, duty_ns |-> d,
           quotient |-> Bind(ConfigResult(p, d).prescaler,
                             LAMBDA i : NatDiv(NatMulSmall(d, NatToInt(CodeTicks(i, p))), p))] :
            d \in {e \in Duties(p) : NatLeq(e, p) /\ ConfigResult(p, e).ret = 0}} :
         p \in Periods}

DutyQuotient(period_ns, duty_ns) ==
  (CHOOSE r \in DutyQuotientTable :
     r.period_ns = period_ns /\ r.duty_ns = duty_ns).quotient

\* C18: for every successful set_config with duty_ns <= period_ns the duty
\* field of the period register equals floor(ticks * duty_ns / period_ns),
\* no bit being lost to the 16-bit mask: the field is 0 only when the
\* quotient is 0, and a duty equal to the period is not stored as 0.
C18_DutyNotTruncated ==
  (ConfigSucceeded /\ NatLeq(call.duty_ns, call.period_ns))
  => LET field == DutyField(reg.ch_period[call.ch])
     IN  /\ IntToNat(field) = DutyQuotient(call.period_ns, call.duty_ns)
         /\ field = 0 => DutyQuotient(call.period_ns, call.duty_ns) = NatZero
         /\ call.duty_ns = call.period_ns => field # 0

====
